---- MODULE Spec2Model ----
(***************************************************************************)
(* File deletion pipeline of the audio admin dashboard.                    *)
(*                                                                         *)
(*   server side : deleteFileHandler (FILE_DELETE_API_SPEC.md), the Go     *)
(*                 handler behind DELETE /admin/files, and                 *)
(*                 getFileTreeHandler / buildFileTree                      *)
(*                 (FILE_TREE_API_SPEC.md) behind GET /admin/files/tree;   *)
(*   client side : handleBulkDelete, deleteFile, loadFileTree and the      *)
(*                 session state of app.ts.                                *)
(*                                                                         *)
(* Strings are sequences of one-character strings, so that HasPrefix,      *)
(* Contains, TrimSpace and filepath.Join are computed character by         *)
(* character as the Go library computes them.  A cleaned absolute path is  *)
(* the sequence of its segments ("/app/audio/a" is <<app, audio, a>>).     *)
(***************************************************************************)
EXTENDS Integers, Sequences, FiniteSets, TLC

VARIABLES
    fs,            \* backing store: cleaned absolute path -> "file" | "dir"
    reqs,          \* DELETE /admin/files requests whose fetch is pending
    token,         \* AppState.token (in-memory)
    localStorage,  \* browser localStorage: key -> value or NULL
    rendered,      \* the .file-checkbox elements of the rendered tree, in document order
    bulk,          \* the running handleBulkDelete invocation
    single,        \* the running deleteFile invocation
    treeLoad,      \* the running loadFileTree invocation
    sizes,         \* backing store: path of a file -> its size in bytes
    treeResp,      \* the last response of GET /admin/files/tree
    screen,        \* the screen on display: "login" | "dashboard"
    username,      \* AppState.username (in-memory)
    apiReqs,       \* requests made through ApiService.request whose fetch is pending
    login,         \* the running submit handler of the login form
    loads,         \* the loadFileTree invocations of the page, in call order
    shown          \* the invocation whose response the tree container shows (0: none)

vars == <<fs, reqs, token, localStorage, rendered, bulk, single, treeLoad,
          sizes, treeResp, screen, username, apiReqs, login, loads, shown>>

pageVars == <<screen, username, apiReqs, login, loads, shown>>

treeVars == <<sizes, treeResp>>

uiVars == <<token, localStorage, rendered, bulk, single, treeLoad>>

-----------------------------------------------------------------------------
(* Bounds *)

\* longest tail a directly submitted candidate path adds to its prefix
MaxTail == 3

-----------------------------------------------------------------------------
(* Go string library *)

\* unicode.IsSpace, over the characters candidate paths are drawn from
IsSpace(c) == c = " "

RECURSIVE TrimLeft(_)
TrimLeft(s) ==
    IF s = <<>> THEN <<>>
    ELSE IF IsSpace(Head(s)) THEN TrimLeft(Tail(s)) ELSE s

RECURSIVE TrimRight(_)
TrimRight(s) ==
    IF s = <<>> THEN <<>>
    ELSE IF IsSpace(s[Len(s)]) THEN TrimRight(SubSeq(s, 1, Len(s) - 1)) ELSE s

\* strings.TrimSpace
TrimSpace(s) == TrimRight(TrimLeft(s))

\* strings.HasPrefix
HasPrefix(s, prefix) ==
    /\ Len(s) >= Len(prefix)
    /\ SubSeq(s, 1, Len(prefix)) = prefix

\* strings.Contains
Contains(s, substr) ==
    \E i \in 1..(Len(s) - Len(substr) + 1) : SubSeq(s, i, i + Len(substr) - 1) = substr

\* the segments of s between separators "/" (strings.Split(s, "/"))
RECURSIVE SplitFrom(_, _, _)
SplitFrom(s, i, cur) ==
    IF i > Len(s) THEN <<cur>>
    ELSE IF s[i] = "/" THEN <<cur>> \o SplitFrom(s, i + 1, <<>>)
    ELSE SplitFrom(s, i + 1, Append(cur, s[i]))

Split(s) == SplitFrom(s, 1, <<>>)

DotSeg == <<".">>
DotDotSeg == <<".", ".">>

\* filepath.Clean of a rooted path given by its raw segments: empty and "."
\* segments are dropped, ".." removes the segment before it and is dropped
\* at the root
RECURSIVE CleanFrom(_, _, _)
CleanFrom(segs, i, out) ==
    IF i > Len(segs) THEN out
    ELSE IF segs[i] = <<>> \/ segs[i] = DotSeg THEN CleanFrom(segs, i + 1, out)
    ELSE IF segs[i] = DotDotSeg
         THEN CleanFrom(segs, i + 1,
                  IF out = <<>> THEN <<>> ELSE SubSeq(out, 1, Len(out) - 1))
    ELSE CleanFrom(segs, i + 1, Append(out, segs[i]))

\* filepath.Join(base, rel) for a rooted, already clean base
Join(base, rel) == CleanFrom(base \o Split(rel), 1, <<>>)

-----------------------------------------------------------------------------
(* Names *)

app     == <<"a", "p", "p">>
audio   == <<"a", "u", "d", "i", "o">>
covers  == <<"c", "o", "v", "e", "r", "s">>
uploads == <<"u", "p", "l", "o", "a", "d", "s">>
audio2  == <<"a", "u", "d", "i", "o", "2">>

\* filepath.Join("/app", req.Path): the base of the handler
AppBase == <<app>>

\* allowedPrefixes of deleteFileHandler
allowedPrefixes == << audio \o <<"/">>, covers \o <<"/">>, uploads \o <<"/">> >>

\* the directories the allowed prefixes name (volumes mounted under /app)
AllowedRoots == { <<app, audio>>, <<app, covers>>, <<app, uploads>> }

fA    == <<"a">>
fDots == <<"a", ".", ".">>

-----------------------------------------------------------------------------
(* Backing store *)

\* the entries that exist in every store: the container base, the three
\* mounted volumes, and entries outside the volumes
BaseStore ==
    ( <<>>               :> "dir" ) @@
    ( <<app>>            :> "dir" ) @@
    ( <<app, audio>>     :> "dir" ) @@
    ( <<app, covers>>    :> "dir" ) @@
    ( <<app, uploads>>   :> "dir" ) @@
    ( <<app, fA>>        :> "file" ) @@
    ( <<app, audio2>>    :> "dir" ) @@
    ( <<app, audio2, fA>> :> "file" )

EmptyStore == [l \in {} |-> "file"]

\* the contents the volumes can start with
AudioAChoices ==
    { EmptyStore,
      ( <<app, audio, fA>> :> "file" ),
      ( <<app, audio, fA>> :> "dir" ),
      ( <<app, audio, fA>> :> "dir" ) @@ ( <<app, audio, fA, fA>> :> "file" ) }

AudioDotsChoices == { EmptyStore, ( <<app, audio, fDots>> :> "file" ) }

CoversAChoices == { EmptyStore, ( <<app, covers, fA>> :> "file" ) }

InitialStores ==
    { BaseStore @@ x @@ y @@ z :
        x \in AudioAChoices, y \in AudioDotsChoices, z \in CoversAChoices }

Exists(store, loc) == loc \in DOMAIN store

\* the regular files of a store
Files(store) == { l \in DOMAIN store : store[l] = "file" }

\* the size of the file of the documented response, in bytes
ExampleSize == 1048576

\* no response of GET /admin/files/tree has been received
NoTree == [status |-> 0]

IsProperPrefix(a, b) == Len(a) < Len(b) /\ SubSeq(b, 1, Len(a)) = a

\* loc lies strictly below root
StrictDescendant(loc, root) == IsProperPrefix(root, loc)

HasChildren(store, loc) == \E l \in DOMAIN store : IsProperPrefix(loc, l)

\* os.Stat(fullPath): the kind of the entry, "notexist" for ENOENT, and
\* "error" for any other error (ENOTDIR when a component of the path is a
\* file, or a fault of the device)
Stat(store, loc, fault) ==
    IF fault THEN "error"
    ELSE IF Exists(store, loc) THEN store[loc]
    ELSE IF \E l \in DOMAIN store : IsProperPrefix(l, loc) /\ store[l] = "file"
         THEN "error"
    ELSE "notexist"

\* os.Remove(fullPath) succeeds on a file and on an empty directory
RemoveSucceeds(store, loc, fault) ==
    /\ ~fault
    /\ Exists(store, loc)
    /\ store[loc] = "dir" => ~HasChildren(store, loc)

\* os.RemoveAll(filepath.Dir(fullPath)) in place of os.Remove(fullPath)
RemoveEntryWithSiblings(store, loc) ==
    [l \in { m \in DOMAIN store :
               m = <<>> \/ ~IsProperPrefix(SubSeq(loc, 1, Len(loc) - 1), m) } |-> store[l]]

RemoveEntry(store, loc) == [l \in (DOMAIN store) \ {loc} |-> store[l]]

-----------------------------------------------------------------------------
(* deleteFileHandler *)

StatusOK                  == 200
StatusBadRequest          == 400
StatusUnauthorized        == 401
StatusForbidden           == 403
StatusNotFound            == 404
StatusInternalServerError == 500
StatusBadGateway          == 502

ErrInvalidBody   == "Invalid request body"
ErrPathRequired  == "File path is required"
ErrAccessDenied  == "Access denied: can only delete files in audio/, covers/, or uploads/ directories"
ErrTraversal     == "Invalid path: directory traversal not allowed"
ErrNotFound      == "File not found"
ErrAccess        == "Failed to access file"
ErrDirectory     == "Cannot delete directories, only files"
ErrDelete        == "Failed to delete file"
ErrUnauthorized  == "Unauthorized"
NoError          == ""

\* a path that passes none of the allowed prefixes
HasValidPrefixNoSlash(path) ==
    \E i \in 1..Len(allowedPrefixes) :
        HasPrefix(path, SubSeq(allowedPrefixes[i], 1, Len(allowedPrefixes[i]) - 1))

\* the loop over allowedPrefixes
HasValidPrefix(path) ==
    \E i \in 1..Len(allowedPrefixes) : HasPrefix(path, allowedPrefixes[i])

NeverContainsDotDot(path) == FALSE

\* strings.Contains(req.Path, "..")
ContainsDotDot(path) == Contains(path, DotDotSeg)

Verdict(ok, status, error) == [ok |-> ok, status |-> status, error |-> error]

Pass == Verdict(TRUE, 0, NoError)

\* the checks of the handler without the allowed-prefix check
ValidateNoPrefixCheck(path) ==
    IF path = <<>> THEN Verdict(FALSE, StatusBadRequest, ErrInvalidBody)
    ELSE IF TrimSpace(path) = <<>> THEN Verdict(FALSE, StatusBadRequest, ErrPathRequired)
    ELSE IF ContainsDotDot(path) THEN Verdict(FALSE, StatusForbidden, ErrTraversal)
    ELSE Pass

\* the checks of the handler in the opposite order: traversal, then prefix
ValidateTraversalFirst(path) ==
    IF path = <<>> THEN Verdict(FALSE, StatusBadRequest, ErrInvalidBody)
    ELSE IF TrimSpace(path) = <<>> THEN Verdict(FALSE, StatusBadRequest, ErrPathRequired)
    ELSE IF ContainsDotDot(path) THEN Verdict(FALSE, StatusForbidden, ErrTraversal)
    ELSE IF ~HasValidPrefix(path) THEN Verdict(FALSE, StatusForbidden, ErrAccessDenied)
    ELSE Pass

\* the checks the handler makes on the request before it touches the store:
\* binding (Path is required), blank path, allowed prefix, traversal
Validate(path) ==
    IF path = <<>> THEN Verdict(FALSE, StatusBadRequest, ErrInvalidBody)
    ELSE IF TrimSpace(path) = <<>> THEN Verdict(FALSE, StatusBadRequest, ErrPathRequired)
    ELSE IF ~HasValidPrefix(path) THEN Verdict(FALSE, StatusForbidden, ErrAccessDenied)
    ELSE IF ContainsDotDot(path) THEN Verdict(FALSE, StatusForbidden, ErrTraversal)
    ELSE Pass

\* a stat verdict that lets directories through to the remove call
StatVerdictNoDirCheck(kind) ==
    CASE kind = "notexist" -> Verdict(FALSE, StatusNotFound, ErrNotFound)
      [] kind = "error"    -> Verdict(FALSE, StatusInternalServerError, ErrAccess)
      [] OTHER             -> Pass

\* what the handler answers after os.Stat
StatVerdict(kind) ==
    CASE kind = "notexist" -> Verdict(FALSE, StatusNotFound, ErrNotFound)
      [] kind = "error"    -> Verdict(FALSE, StatusInternalServerError, ErrAccess)
      [] kind = "dir"      -> Verdict(FALSE, StatusForbidden, ErrDirectory)
      [] OTHER             -> Pass

-----------------------------------------------------------------------------
(* Session *)

NULL == "<null>"

\* the token the auth service issued to the administrator
AdminToken == "jwt-admin"
\* a token the auth service no longer accepts
StaleToken == "jwt-stale"

\* the token the auth service issues to an account that is not an administrator
UserToken == "jwt-user"

\* `Bearer ${value}`: a null value is interpolated as the text "null"
Bearer(value) == <<"Bearer", IF value = NULL THEN "null" ELSE value>>

\* the admin route group lets a request through to the handler only with
\* a valid admin JWT
Authenticated(cred) == cred = Bearer(AdminToken)

-----------------------------------------------------------------------------
(* Requests *)

\* fetch(`${API_BASE_URL}/admin/files`, {method: 'DELETE', headers: {Authorization}, body: {path}})
DeleteFetch(cred, path) ==
    [endpoint |-> "/api/admin/files", method |-> "DELETE", cred |-> cred, body |-> path]

\* A pending DELETE /admin/files request.  pc is the position of the
\* handler: "sent" (not yet handled), "stat" (before os.Stat), "remove"
\* (before os.Remove), "done" (response written).  io lists the storage
\* calls the handler has made for this request; kind0 remembers what the
\* resolved target was when the request was sent, fault whether a storage
\* call of the request met a device error, and absent whether the target
\* was missing at the last storage call made for the request.
NewRequest(origin, k, f) ==
    [origin |-> origin, k |-> k,
     endpoint |-> f.endpoint, method |-> f.method, path |-> f.body, cred |-> f.cred,
     pc |-> "sent", io |-> <<>>, status |-> 0, error |-> NoError, json |-> TRUE,
     kind0 |-> Stat(fs, Join(AppBase, f.body), FALSE),
     fault |-> FALSE, absent |-> FALSE]

\* the fetch call that issued the request
FetchOf(r) == [endpoint |-> r.endpoint, method |-> r.method, cred |-> r.cred, body |-> r.path]

\* c.JSON(status, gin.H{...})
Respond(r, status, error) ==
    [r EXCEPT !.pc = "done", !.status = status, !.error = error, !.json = TRUE]

FullPath(r) == Join(AppBase, r.path)

Replace(r, r2) == reqs' = (reqs \ {r}) \cup {r2}

\* lines 78-115: the admin middleware, the binding and the checks on the
\* path; no storage call is made
DeleteFileHandlerValidate(r) ==
    /\ r.pc = "sent"
    /\ IF ~Authenticated(r.cred)
       THEN Replace(r, Respond(r, StatusUnauthorized, ErrUnauthorized))
       ELSE LET v == Validate(r.path) IN
            IF v.ok THEN Replace(r, [r EXCEPT !.pc = "stat"])
            ELSE Replace(r, Respond(r, v.status, v.error))
    /\ UNCHANGED <<fs, uiVars, treeVars, pageVars>>

\* lines 117-132: os.Stat and the answers that depend on it
DeleteFileHandlerStat(r) ==
    /\ r.pc = "stat"
    /\ \E fault \in BOOLEAN :
        LET v  == StatVerdict(Stat(fs, FullPath(r), fault))
            r1 == [r EXCEPT !.io = Append(@, "stat"), !.fault = fault,
                            !.absent = ~Exists(fs, FullPath(r))]
        IN  IF v.ok THEN Replace(r, [r1 EXCEPT !.pc = "remove"])
            ELSE Replace(r, Respond(r1, v.status, v.error))
    /\ UNCHANGED <<fs, uiVars, treeVars, pageVars>>

\* lines 134-146: os.Remove and the final answer
DeleteFileHandlerRemove(r) ==
    /\ r.pc = "remove"
    /\ \E fault \in BOOLEAN :
        LET r1 == [r EXCEPT !.io = Append(@, "remove"), !.fault = fault,
                            !.absent = ~Exists(fs, FullPath(r))] IN
        IF RemoveSucceeds(fs, FullPath(r), fault)
        THEN /\ fs' = RemoveEntry(fs, FullPath(r))
             /\ sizes' = RemoveEntry(sizes, FullPath(r))
             /\ Replace(r, Respond(r1, StatusOK, NoError))
        ELSE /\ fs' = fs
             /\ sizes' = sizes
             /\ Replace(r, Respond(r1, StatusInternalServerError, ErrDelete))
    /\ UNCHANGED <<uiVars, treeResp, pageVars>>

-----------------------------------------------------------------------------
(* An administrator calling the endpoint directly (the curl tests) *)

Alphabet == {"a", ".", "/", " "}

Tails == UNION { [1..n -> Alphabet] : n \in 0..MaxTail }

Prefixes ==
    { <<>>,
      audio \o <<"/">>, covers \o <<"/">>, uploads \o <<"/">>,
      audio, audio2 \o <<"/">>,
      <<".", ".", "/">>,
      uploads \o <<"/", ".", ".", "/">> }

\* the candidate paths a request can carry
CandidatePaths == { p \o t : p \in Prefixes, t \in Tails }

\* curl -X DELETE .../admin/files -H "Authorization: Bearer $TOKEN" -d '{"path": ...}'
AdminRequest(path) ==
    /\ \A r \in reqs : r.origin # "admin"
    /\ reqs' = reqs \cup {NewRequest("admin", 0, DeleteFetch(Bearer(AdminToken), path))}
    /\ UNCHANGED <<fs, uiVars, treeVars, pageVars>>

\* curl prints the response and exits
AdminReceive(r) ==
    /\ r.origin = "admin"
    /\ r.pc = "done"
    /\ reqs' = reqs \ {r}
    /\ UNCHANGED <<fs, uiVars, treeVars, pageVars>>

-----------------------------------------------------------------------------
(* Client state *)

NoBulk == [pc |-> "idle", files |-> <<>>, next |-> 1,
           successCount |-> 0, failCount |-> 0, errors |-> <<>>,
           issued |-> <<>>, outcomes |-> <<>>]

NoSingle == [pc |-> "idle", path |-> <<>>, name |-> <<>>]

\* no login is being submitted; outcome remembers how the last one ended
NoLogin == [pc |-> "idle", account |-> "", outcome |-> "none"]

\* a page with no request of ApiService pending, no login being submitted
\* and no loadFileTree invocation
PageAtRest(scr, user) ==
    /\ screen = scr
    /\ username = user
    /\ apiReqs = {}
    /\ login = NoLogin
    /\ loads = <<>>
    /\ shown = 0

\* alert() is modal: while a dialog is open no handler and no continuation
\* of the page runs
AlertOpen == bulk.pc = "alert" \/ single.pc \in {"alertOk", "alertErr"}

StorageKeys == {"admin_token", "admin_username", "auth_token"}

\* AppState.getToken: the in-memory token, loaded from localStorage when unset
GetToken == IF token # NULL THEN token ELSE localStorage["admin_token"]

\* AppState.isAuthenticated
IsAuthenticated == GetToken # NULL

\* the text of a path below /app: its segments joined by "/"
RECURSIVE PathText(_)
PathText(segs) ==
    IF Len(segs) = 0 THEN <<>>
    ELSE IF Len(segs) = 1 THEN segs[1]
    ELSE segs[1] \o <<"/">> \o PathText(Tail(segs))

\* the file entries a tree can show, in the order the tree lists them
\* (roots in order; in a directory, directories before files, by name)
TreeOrder ==
    << <<app, audio, fA, fA>>, <<app, audio, fA>>, <<app, audio, fDots>>, <<app, covers, fA>> >>

\* renderNode: one .file-checkbox per file node, carrying the node's path and
\* name, unchecked; isDir remembers the kind of the node the box was drawn for
Checkbox(loc) ==
    [path |-> PathText(Tail(loc)), name |-> loc[Len(loc)], checked |-> FALSE,
     isDir |-> FALSE]

\* a renderNode that draws the checkbox and the delete button of every node,
\* directories included
RECURSIVE FileCheckboxesFromEveryNode(_, _)
FileCheckboxesFromEveryNode(store, i) ==
    IF i > Len(TreeOrder) THEN <<>>
    ELSE (IF Exists(store, TreeOrder[i])
          THEN <<[Checkbox(TreeOrder[i]) EXCEPT !.isDir = store[TreeOrder[i]] = "dir"]>>
          ELSE <<>>)
         \o FileCheckboxesFromEveryNode(store, i + 1)

RECURSIVE FileCheckboxesFrom(_, _)
FileCheckboxesFrom(store, i) ==
    IF i > Len(TreeOrder) THEN <<>>
    ELSE (IF Exists(store, TreeOrder[i]) /\ store[TreeOrder[i]] = "file"
          THEN <<Checkbox(TreeOrder[i])>> ELSE <<>>)
         \o FileCheckboxesFrom(store, i + 1)

\* the checkboxes renderFileTreeNew draws for a tree of the store
FileCheckboxes(store) == FileCheckboxesFrom(store, 1)

\* the store the tree on screen was loaded from
SnapshotStore ==
    BaseStore @@ ( <<app, audio, fA>> :> "file" ) @@ ( <<app, audio, fDots>> :> "file" )
              @@ ( <<app, covers, fA>> :> "file" )

\* response.ok
Ok(r) == r.status >= 200 /\ r.status <= 299

ErrUnknown     == "Unknown error"
ErrSyntax      == "Unexpected token < in JSON at position 0"
ErrFetchFailed == "Failed to fetch"

-----------------------------------------------------------------------------
(* Network *)

\* nginx answers in place of the service with an HTML error page
GatewayError(r) ==
    /\ r.pc = "sent"
    /\ r.origin # "admin"
    /\ Replace(r, [r EXCEPT !.pc = "done", !.status = StatusBadGateway,
                            !.error = NoError, !.json = FALSE])
    /\ UNCHANGED <<fs, uiVars, treeVars, pageVars>>

\* the promise of fetch rejects: the request is lost before the service
\* sees it, or its response is lost
FetchRejects(r) == r.pc \in {"sent", "done"}

-----------------------------------------------------------------------------
(* loadFileTree *)

\* the first statements of loadFileTree: the container shows "Loading file
\* tree..." (every checkbox is gone) and the tree request is sent
LoadFileTreeCalled ==
    /\ rendered' = <<>>
    /\ treeLoad' = "loading"

\* the tree response arrives: the tree of the store is drawn, or the error
\* message when the response is not ok
LoadFileTreeResponse ==
    /\ ~AlertOpen
    /\ treeLoad = "loading"
    /\ treeLoad' = "idle"
    /\ rendered' = IF Authenticated(Bearer(GetToken)) THEN FileCheckboxes(fs) ELSE <<>>
    /\ UNCHANGED <<fs, reqs, token, localStorage, bulk, single, treeVars, pageVars>>

-----------------------------------------------------------------------------
(* Selection *)

\* the administrator ticks or unticks the checkbox of a file (the selection
\* is made before the batch is started)
ToggleCheckbox(i) ==
    /\ ~AlertOpen
    /\ bulk.pc = "idle"
    /\ i \in 1..Len(rendered)
    /\ rendered' = [rendered EXCEPT ![i].checked = ~@]
    /\ UNCHANGED <<fs, reqs, token, localStorage, bulk, single, treeLoad, treeVars, pageVars>>

IsChecked(box) == box.checked

FileOf(box) == [path |-> box.path, name |-> box.name]

RECURSIVE MapFileOf(_)
MapFileOf(boxes) ==
    IF boxes = <<>> THEN <<>> ELSE <<FileOf(Head(boxes))>> \o MapFileOf(Tail(boxes))

HasPathAndName(f) == f.path # <<>> /\ f.name # <<>>

\* lines 901-910: filesToDelete, the checked boxes with a path and a name
FilesToDelete == SelectSeq(MapFileOf(SelectSeq(rendered, IsChecked)), HasPathAndName)

-----------------------------------------------------------------------------
(* handleBulkDelete *)

BulkFetch(path) == DeleteFetch(Bearer(localStorage["auth_token"]), path)

\* lines 900-926: a click on "Delete Selected" with a selection, confirmed
\* (with no selection, or when the confirmation is declined, the handler
\* returns and nothing changes); one invocation runs at a time
HandleBulkDeleteStart ==
    /\ ~AlertOpen
    /\ bulk.pc = "idle"
    /\ FilesToDelete # <<>>
    /\ bulk' = [NoBulk EXCEPT !.pc = "loop", !.files = FilesToDelete]
    /\ UNCHANGED <<fs, reqs, token, localStorage, rendered, single, treeLoad, treeVars, pageVars>>

\* a loop that sends the next request without awaiting the one before
BulkMayFetchNoAwait == bulk.pc \in {"loop", "await"} /\ bulk.next <= Len(bulk.files)

\* the loop is at the top of an iteration and a file is left
BulkMayFetch == bulk.pc = "loop" /\ bulk.next <= Len(bulk.files)

\* lines 929-938: the fetch of the next file of the batch
HandleBulkDeleteFetch ==
    /\ ~AlertOpen
    /\ BulkMayFetch
    /\ reqs' = reqs \cup {NewRequest("bulk", bulk.next, BulkFetch(bulk.files[bulk.next].path))}
    /\ bulk' = [bulk EXCEPT !.pc = "await", !.next = @ + 1,
                            !.issued = Append(@, bulk.files[bulk.next].path)]
    /\ UNCHANGED <<fs, token, localStorage, rendered, single, treeLoad, treeVars, pageVars>>

ErrorEntry(name, reason) == [name |-> name, reason |-> reason]

\* an accounting that loses the entry of a response whose body is not JSON
AfterResponseDropsEntry(b, r) ==
    LET name == b.files[r.k].name IN
    IF Ok(r)
    THEN [b EXCEPT !.successCount = @ + 1, !.outcomes = Append(@, "ok")]
    ELSE IF r.json
    THEN [b EXCEPT !.failCount = @ + 1,
                   !.errors = Append(@, ErrorEntry(name,
                                 IF r.error # NoError THEN r.error ELSE ErrUnknown)),
                   !.outcomes = Append(@, "fail")]
    ELSE [b EXCEPT !.failCount = @ + 2, !.outcomes = Append(@, "fail")]

\* lines 940-950: the accounting of one response.  A response that is not
\* ok is counted as a failure; when its body is not JSON, response.json()
\* throws after the count and the catch block counts again
AfterResponse(b, r) ==
    LET name == b.files[r.k].name IN
    IF Ok(r)
    THEN [b EXCEPT !.successCount = @ + 1, !.outcomes = Append(@, "ok")]
    ELSE IF r.json
    THEN [b EXCEPT !.failCount = @ + 1,
                   !.errors = Append(@, ErrorEntry(name,
                                 IF r.error # NoError THEN r.error ELSE ErrUnknown)),
                   !.outcomes = Append(@, "fail")]
    ELSE [b EXCEPT !.failCount = @ + 2,
                   !.errors = Append(@, ErrorEntry(name, ErrSyntax)),
                   !.outcomes = Append(@, "fail")]

\* a catch block that lets the exception end the loop
AfterCatchAbort(b, r) ==
    [b EXCEPT !.failCount = @ + 1,
              !.errors = Append(@, ErrorEntry(b.files[r.k].name, ErrFetchFailed)),
              !.outcomes = Append(@, "thrown"),
              !.next = Len(b.files) + 1]

\* lines 947-950: fetch threw; the failure is counted and the loop goes on
AfterCatch(b, r) ==
    [b EXCEPT !.failCount = @ + 1,
              !.errors = Append(@, ErrorEntry(b.files[r.k].name, ErrFetchFailed)),
              !.outcomes = Append(@, "thrown")]

\* the awaited fetch resolves with a response
HandleBulkDeleteResponse(r) ==
    /\ ~AlertOpen
    /\ bulk.pc = "await"
    /\ r.origin = "bulk"
    /\ r.pc = "done"
    /\ reqs' = reqs \ {r}
    /\ bulk' = [AfterResponse(bulk, r) EXCEPT !.pc = "loop"]
    /\ UNCHANGED <<fs, token, localStorage, rendered, single, treeLoad, treeVars, pageVars>>

\* the awaited fetch rejects
HandleBulkDeleteCatch(r) ==
    /\ ~AlertOpen
    /\ bulk.pc = "await"
    /\ r.origin = "bulk"
    /\ FetchRejects(r)
    /\ reqs' = reqs \ {r}
    /\ bulk' = [AfterCatch(bulk, r) EXCEPT !.pc = "loop"]
    /\ UNCHANGED <<fs, token, localStorage, rendered, single, treeLoad, treeVars, pageVars>>

\* lines 953-965: the loop is over; the report is shown with alert
HandleBulkDeleteReport ==
    /\ ~AlertOpen
    /\ bulk.pc = "loop"
    /\ bulk.next > Len(bulk.files)
    /\ bulk' = [bulk EXCEPT !.pc = "alert"]
    /\ UNCHANGED <<fs, reqs, token, localStorage, rendered, single, treeLoad, treeVars, pageVars>>

\* an ending that reloads the tree whatever the counts are
HandleBulkDeleteEndAlwaysReloads ==
    /\ bulk.pc = "alert"
    /\ bulk' = NoBulk
    /\ LoadFileTreeCalled /\ token' = GetToken
    /\ UNCHANGED <<fs, reqs, localStorage, single, treeVars, pageVars>>

\* lines 967-971: the alert is closed; the tree is reloaded when a file
\* was deleted
HandleBulkDeleteEnd ==
    /\ bulk.pc = "alert"
    /\ bulk' = NoBulk
    /\ IF bulk.successCount > 0
       THEN LoadFileTreeCalled /\ token' = GetToken
       ELSE UNCHANGED <<rendered, treeLoad, token>>
    /\ UNCHANGED <<fs, reqs, localStorage, single, treeVars, pageVars>>

\* errors.slice(0, 5)
MaxShownErrors == 5

ShownErrors(errors) ==
    SubSeq(errors, 1, IF Len(errors) > MaxShownErrors THEN MaxShownErrors ELSE Len(errors))

\* the report of the batch: what the message of the alert is built from
Report ==
    [succeeded |-> bulk.successCount, failed |-> bulk.failCount, errors |-> bulk.errors,
     shown |-> ShownErrors(bulk.errors)]

-----------------------------------------------------------------------------
(* deleteFile *)

SingleFetch(path) == DeleteFetch(Bearer(GetToken), path)

\* lines 1064-1113: a click on the delete button of a file, confirmed (when
\* the confirmation is declined nothing changes); one invocation runs at a
\* time
DeleteFileFetch(i) ==
    /\ ~AlertOpen
    /\ single.pc = "idle"
    /\ i \in 1..Len(rendered)
    /\ reqs' = reqs \cup {NewRequest("single", 0, SingleFetch(rendered[i].path))}
    /\ single' = [pc |-> "await", path |-> rendered[i].path, name |-> rendered[i].name]
    /\ token' = GetToken
    /\ UNCHANGED <<fs, localStorage, rendered, bulk, treeLoad, treeVars, pageVars>>

\* lines 1115-1120, 1124: the response; success is announced, a response
\* that is not ok is announced as an error
DeleteFileResponse(r) ==
    /\ ~AlertOpen
    /\ single.pc = "await"
    /\ r.origin = "single"
    /\ r.pc = "done"
    /\ reqs' = reqs \ {r}
    /\ single' = [single EXCEPT !.pc = IF Ok(r) THEN "alertOk" ELSE "alertErr"]
    /\ UNCHANGED <<fs, token, localStorage, rendered, bulk, treeLoad, treeVars, pageVars>>

\* lines 1123-1125: fetch threw; the error is announced
DeleteFileCatch(r) ==
    /\ ~AlertOpen
    /\ single.pc = "await"
    /\ r.origin = "single"
    /\ FetchRejects(r)
    /\ reqs' = reqs \ {r}
    /\ single' = [single EXCEPT !.pc = "alertErr"]
    /\ UNCHANGED <<fs, token, localStorage, rendered, bulk, treeLoad, treeVars, pageVars>>

\* lines 1120-1122: the alert is closed; after a success the tree is reloaded
DeleteFileEnd ==
    /\ single.pc \in {"alertOk", "alertErr"}
    /\ single' = NoSingle
    /\ IF single.pc = "alertOk"
       THEN LoadFileTreeCalled /\ token' = GetToken
       ELSE UNCHANGED <<rendered, treeLoad, token>>
    /\ UNCHANGED <<fs, reqs, localStorage, bulk, treeVars, pageVars>>

-----------------------------------------------------------------------------
(* Specifications *)

\* The dashboard after login, with the file tree on screen.  The store has
\* changed since the tree was loaded.  localStorage is shared by the origin:
\* the dashboard writes admin_token and admin_username, and auth_token holds
\* whatever else was stored under that key.
Init ==
    /\ fs \in InitialStores
    /\ reqs = {}
    /\ token \in {AdminToken, StaleToken}
    /\ \E other \in {NULL, AdminToken} :
         localStorage = [key \in StorageKeys |->
                            IF key = "admin_token" THEN token
                            ELSE IF key = "admin_username" THEN "admin"
                            ELSE other]
    /\ rendered = FileCheckboxes(SnapshotStore)
    /\ bulk = NoBulk
    /\ single = NoSingle
    /\ treeLoad = "idle"
    /\ sizes = [l \in Files(fs) |-> ExampleSize]
    /\ treeResp = NoTree
    /\ PageAtRest("dashboard", "admin")

Next ==
    \/ \E i \in 1..Len(rendered) : ToggleCheckbox(i)
    \/ HandleBulkDeleteStart
    \/ HandleBulkDeleteFetch
    \/ \E r \in reqs : HandleBulkDeleteResponse(r)
    \/ \E r \in reqs : HandleBulkDeleteCatch(r)
    \/ HandleBulkDeleteReport
    \/ HandleBulkDeleteEnd
    \/ \E i \in 1..Len(rendered) : DeleteFileFetch(i)
    \/ \E r \in reqs : DeleteFileResponse(r)
    \/ \E r \in reqs : DeleteFileCatch(r)
    \/ DeleteFileEnd
    \/ LoadFileTreeResponse
    \/ \E r \in reqs : GatewayError(r)
    \/ \E r \in reqs : DeleteFileHandlerValidate(r)
    \/ \E r \in reqs : DeleteFileHandlerStat(r)
    \/ \E r \in reqs : DeleteFileHandlerRemove(r)

\* the dashboard and the delete endpoint
Spec == Init /\ [][Next]_vars

InitGate ==
    /\ fs \in InitialStores
    /\ reqs = {}
    /\ token = NULL
    /\ localStorage = [key \in StorageKeys |-> NULL]
    /\ rendered = <<>>
    /\ bulk = NoBulk
    /\ single = NoSingle
    /\ treeLoad = "idle"
    /\ sizes = [l \in Files(fs) |-> ExampleSize]
    /\ treeResp = NoTree
    /\ PageAtRest("login", NULL)

NextGate ==
    \/ \E path \in CandidatePaths : AdminRequest(path)
    \/ \E r \in reqs : DeleteFileHandlerValidate(r)
    \/ \E r \in reqs : DeleteFileHandlerStat(r)
    \/ \E r \in reqs : DeleteFileHandlerRemove(r)
    \/ \E r \in reqs : AdminReceive(r)

\* the delete endpoint under sequential requests of an administrator
GateSpec == InitGate /\ [][NextGate]_vars

-----------------------------------------------------------------------------
(* Properties of the delete gate *)

\* the path has a parent-directory segment: ".." between separators
HasDotDotSegment(path) == \E i \in 1..Len(Split(path)) : Split(path)[i] = DotDotSeg

\* the handler has made the storage call for this request
Called(r, call) == \E i \in 1..Len(r.io) : r.io[i] = call

\* the allowed roots the resolved location lies strictly below
OwningRoots(loc) == { root \in AllowedRoots : StrictDescendant(loc, root) }

\* the request passed every check of the gate: the handler reached os.Remove
Accepted(r) == r.pc = "remove" \/ Called(r, "remove")

\* C1: a request whose path has a ".." segment, in any position and under
\* any allowed prefix, is answered with a rejection (400 or 403), and the
\* handler never reaches or makes the os.Remove call for it.
C1_NoTraversalEscape ==
    \A r \in reqs :
        HasDotDotSegment(r.path) =>
            /\ r.pc \notin {"stat", "remove"}
            /\ ~Called(r, "remove")
            /\ r.pc = "done" => r.status \in {StatusBadRequest, StatusForbidden}

\* a ".." path under an allowed prefix whose resolved target is an existing
\* file has been answered
C1_Witness ==
    \E r \in reqs :
        /\ r.pc = "done"
        /\ HasDotDotSegment(r.path)
        /\ HasValidPrefix(r.path)
        /\ Stat(fs, FullPath(r), FALSE) = "file"

\* C2: every path that passes the gate resolves to a strict descendant of
\* exactly one allowed root; a path whose first segment only starts with a
\* root name, and a path that resolves to a root itself, never pass.
C2_RootContainment ==
    \A r \in reqs :
        Accepted(r) =>
            /\ Cardinality(OwningRoots(FullPath(r))) = 1
            /\ FullPath(r) \notin AllowedRoots
            /\ ~HasPrefix(r.path, audio2)

\* a file two levels below its root has been deleted
C2_Witness ==
    \E r \in reqs :
        /\ r.status = StatusOK
        /\ Len(FullPath(r)) = 4
        /\ OwningRoots(FullPath(r)) = { <<app, audio>> }

\* C3: a request whose path resolves to a directory, under an allowed root
\* or not, is not answered with success, makes no os.Remove call, and the
\* directory exists after the answer.
C3_DirectoryNonDeletion ==
    \A r \in reqs :
        (r.pc = "done" /\ r.kind0 = "dir") =>
            /\ r.status # StatusOK
            /\ ~Called(r, "remove")
            /\ Stat(fs, FullPath(r), FALSE) = "dir"

\* an empty directory under an allowed root, which os.Remove would delete,
\* has been refused by the directory check
C3_Witness ==
    \E r \in reqs :
        /\ r.pc = "done"
        /\ r.kind0 = "dir"
        /\ r.error = ErrDirectory
        /\ OwningRoots(FullPath(r)) # {}
        /\ ~HasChildren(fs, FullPath(r))

\* the answers that reject the request for what it asks
ValidationErrors == {ErrInvalidBody, ErrPathRequired, ErrAccessDenied, ErrTraversal, ErrDirectory}

\* C9 as stated: every validation rejection (blank path, traversal, outside
\* the allowed roots, directory target) is decided before any storage
\* access is made for the request.
C9_Original ==
    \A r \in reqs :
        (r.pc = "done" /\ r.error \in ValidationErrors) => r.io = <<>>

\* C9 amended: the handler makes no storage call for a request unless its
\* path is non-blank, has an allowed prefix and has no ".." segment, so
\* these rejections are decided before any storage access; the rejection
\* of a directory target is decided after exactly one os.Stat and before
\* any os.Remove.
C9_ValidationBeforeIO ==
    \A r \in reqs :
        /\ (r.io # <<>> \/ r.pc \in {"stat", "remove"}) =>
               /\ TrimSpace(r.path) # <<>>
               /\ HasValidPrefix(r.path)
               /\ ~HasDotDotSegment(r.path)
        /\ (r.pc = "done" /\ r.error \in ValidationErrors \ {ErrDirectory}) => r.io = <<>>
        /\ (r.pc = "done" /\ r.error = ErrDirectory) => r.io = <<"stat">>

\* a directory target has been refused after the stat call, and nothing else
C9_Witness ==
    \E r \in reqs : r.pc = "done" /\ r.error = ErrDirectory /\ r.io = <<"stat">>

\* C10 as stated: every path with a ".." segment is rejected with the
\* traversal classification, with or without an allowed prefix, and with
\* no storage access.
C10_Original ==
    \A r \in reqs :
        (r.pc = "done" /\ Authenticated(r.cred) /\ HasDotDotSegment(r.path)) =>
            r.error = ErrTraversal /\ r.io = <<>>

\* C10 amended: every path with a ".." segment is rejected with status 403
\* and no storage access; the classification is the traversal one when the
\* path begins with an allowed prefix and the outside-allowed-directories
\* one when it does not.
C10_TraversalClassification ==
    \A r \in reqs :
        (r.pc = "done" /\ Authenticated(r.cred) /\ HasDotDotSegment(r.path)) =>
            /\ r.status = StatusForbidden
            /\ r.io = <<>>
            /\ HasValidPrefix(r.path) => r.error = ErrTraversal
            /\ ~HasValidPrefix(r.path) => r.error = ErrAccessDenied

\* both kinds of ".." path have been answered: "uploads/../..." as a
\* traversal, "../..." as outside the allowed directories
C10_Witness ==
    \E r \in reqs :
        /\ r.pc = "done"
        /\ HasDotDotSegment(r.path)
        /\ ~HasValidPrefix(r.path)
        /\ r.error = ErrAccessDenied


-----------------------------------------------------------------------------
(* Properties of the bulk deletion *)

\* the batch is over and its report is on screen
AtReport == bulk.pc = "alert"

\* the requests of the batch whose fetch is pending
BulkInFlight == { r \in reqs : r.origin = "bulk" }

\* the candidates of the batch whose observed outcome is not a success
RECURSIVE FailedNamesFrom(_, _)
FailedNamesFrom(b, i) ==
    IF i > Len(b.outcomes) THEN <<>>
    ELSE (IF b.outcomes[i] # "ok" THEN <<b.files[i].name>> ELSE <<>>)
         \o FailedNamesFrom(b, i + 1)

RECURSIVE NamesOf(_)
NamesOf(entries) ==
    IF entries = <<>> THEN <<>> ELSE <<Head(entries).name>> \o NamesOf(Tail(entries))

Successes(b) == Cardinality({ i \in 1..Len(b.outcomes) : b.outcomes[i] = "ok" })

\* C4 as stated: the report of a batch of N candidates shows successes and
\* failures that add up to N, and every counted failure has exactly one
\* non-empty error entry, whatever form the failing response takes.
C4_Original ==
    AtReport =>
        /\ Report.succeeded + Report.failed = Len(bulk.files)
        /\ Report.succeeded = Successes(bulk)
        /\ Len(Report.errors) = Report.failed
        /\ \A i \in 1..Len(Report.errors) : Report.errors[i].reason # NoError

\* C5: within a batch at most one request is pending at any time; the
\* requests are issued in the order of the selection, and the request for a
\* candidate is issued only when the outcomes of all candidates before it
\* have been recorded.
C5_Sequential ==
    /\ Cardinality(BulkInFlight) <= 1
    /\ \A r \in BulkInFlight :
          /\ bulk.pc = "await"
          /\ r.k = bulk.next - 1
          /\ r.path = bulk.files[r.k].path
    /\ Len(bulk.issued) = bulk.next - 1
    /\ \A i \in 1..Len(bulk.issued) : bulk.issued[i] = bulk.files[i].path
    /\ Len(bulk.outcomes) = Len(bulk.issued) - Cardinality(BulkInFlight)

\* the second request of a batch is pending after the first one failed
C5_Witness ==
    /\ bulk.pc = "await"
    /\ bulk.next = 3
    /\ bulk.outcomes \in { <<"fail">>, <<"thrown">> }
    /\ BulkInFlight # {}

\* C6: a failure never ends the batch early: a running batch is always
\* either waiting for its one pending request or about to go on, and when
\* the report is shown every candidate has been attempted exactly once,
\* in order, whatever the outcomes before it were.
C6_NoAbort ==
    /\ bulk.pc = "loop" => bulk.next <= Len(bulk.files) + 1
    /\ bulk.pc = "await" => BulkInFlight # {}
    /\ AtReport =>
          /\ Len(bulk.issued) = Len(bulk.files)
          /\ \A i \in 1..Len(bulk.files) : bulk.issued[i] = bulk.files[i].path
          /\ Len(bulk.outcomes) = Len(bulk.files)

\* a report is shown for a batch of three whose first candidate threw and
\* whose second was refused
C6_Witness ==
    /\ AtReport
    /\ Len(bulk.files) = 3
    /\ bulk.outcomes[1] = "thrown"
    /\ bulk.outcomes[2] = "fail"

C8_Original ==
    \A r \in reqs : r.origin = "bulk" => FetchOf(r) = SingleFetch(r.path)

-----------------------------------------------------------------------------
(* Outcome classes of the delete endpoint *)

\* the classes the answers of the endpoint fall into
OutcomeClasses ==
    {StatusOK, StatusBadRequest, StatusForbidden, StatusNotFound,
     StatusInternalServerError}

\* the target of the request was missing when the request was sent
AbsentAtSend(r) == r.kind0 \in {"notexist", "error"}

\* The class the input of a request belongs to: an empty path is malformed,
\* a parent segment or a path outside the allowed directories is refused,
\* then a device error is an I/O failure, a directory is refused, a missing
\* target is not found, and anything else succeeds.
ClassOfInput(r) ==
    IF TrimSpace(r.path) = <<>> THEN StatusBadRequest
    ELSE IF HasDotDotSegment(r.path) \/ ~HasValidPrefix(r.path) THEN StatusForbidden
    ELSE IF r.fault THEN StatusInternalServerError
    ELSE IF r.kind0 = "dir" THEN StatusForbidden
    ELSE IF AbsentAtSend(r) THEN StatusNotFound
    ELSE StatusOK

\* C11 (as stated): every delete request of an administrator ends in the one
\* outcome class its input determines: 400 for an empty path, 403 for a path
\* outside the allowed directories or a directory target, 404 for a valid
\* path whose target is absent, 500 for an I/O failure, success otherwise.
C11_Original ==
    \A r \in reqs :
        (r.pc = "done" /\ Authenticated(r.cred)) =>
            /\ r.status \in OutcomeClasses
            /\ r.status = ClassOfInput(r)

\* C28: the gate is complete for legitimate files: a request of an
\* administrator whose path starts with an allowed prefix, has no `..`
\* segment and names an existing regular file is accepted, whatever the file
\* is called ("audio/a..b.mp3" included), and the file is deleted.
C28_Original ==
    \A r \in reqs :
        (/\ r.pc = "done"
         /\ Authenticated(r.cred)
         /\ HasValidPrefix(r.path)
         /\ ~HasDotDotSegment(r.path)
         /\ r.kind0 = "file"
         /\ ~r.fault)
        => (r.status = StatusOK /\ ~Exists(fs, FullPath(r)))

-----------------------------------------------------------------------------
(* Concurrent requests to the delete endpoint *)

\* two administrators, each running one curl at a time
Admins == {"admin", "admin2"}

\* the paths both administrators ask to delete
ContendedPaths == { audio \o <<"/">> \o fA, covers \o <<"/">> \o fA }

ConcurrentAdminRequest(who, path) ==
    /\ \A r \in reqs : r.origin # who
    /\ reqs' = reqs \cup {NewRequest(who, 0, DeleteFetch(Bearer(AdminToken), path))}
    /\ UNCHANGED <<fs, uiVars, treeVars, pageVars>>

ConcurrentAdminReceive(r) ==
    /\ r.origin \in Admins
    /\ r.pc = "done"
    /\ reqs' = reqs \ {r}
    /\ UNCHANGED <<fs, uiVars, treeVars, pageVars>>

NextRace ==
    \/ \E who \in Admins, path \in ContendedPaths : ConcurrentAdminRequest(who, path)
    \/ \E r \in reqs : DeleteFileHandlerValidate(r)
    \/ \E r \in reqs : DeleteFileHandlerStat(r)
    \/ \E r \in reqs : DeleteFileHandlerRemove(r)
    \/ \E r \in reqs : ConcurrentAdminReceive(r)

\* the delete endpoint serving two administrators at once: gin runs each
\* request in its own goroutine, and the handler takes no lock
RaceSpec == InitGate /\ [][NextRace]_vars

\* C12 (as stated): a request for an authorized path whose target does not
\* exist when the delete is executed is answered not-found (404 'File not
\* found'), never with success and never as an I/O failure, also when another
\* request removed the target after this request's os.Stat.
C12_Original ==
    \A r \in reqs :
        (/\ r.pc = "done"
         /\ Authenticated(r.cred)
         /\ Validate(r.path).ok
         /\ r.absent
         /\ ~r.fault)
        => (r.status = StatusNotFound /\ r.error = ErrNotFound)

-----------------------------------------------------------------------------
(* The volume changes under the handler *)

\* another writer of the shared volume replaces a file by an empty directory
\* of the same name
VolumeReplace(loc) ==
    /\ Exists(fs, loc)
    /\ fs[loc] = "file"
    /\ fs' = [fs EXCEPT ![loc] = "dir"]
    /\ sizes' = RemoveEntry(sizes, loc)
    /\ UNCHANGED <<reqs, uiVars, treeResp, pageVars>>

NextVolume ==
    \/ \E path \in ContendedPaths : AdminRequest(path)
    \/ \E r \in reqs : DeleteFileHandlerValidate(r)
    \/ \E r \in reqs : DeleteFileHandlerStat(r)
    \/ \E r \in reqs : DeleteFileHandlerRemove(r)
    \/ \E r \in reqs : AdminReceive(r)
    \/ \E loc \in Files(fs) : VolumeReplace(loc)

\* a volume holding a file at each contended path
InitVolume ==
    /\ fs = SnapshotStore
    /\ reqs = {}
    /\ token = NULL
    /\ localStorage = [key \in StorageKeys |-> NULL]
    /\ rendered = <<>>
    /\ bulk = NoBulk
    /\ single = NoSingle
    /\ treeLoad = "idle"
    /\ sizes = [l \in Files(fs) |-> ExampleSize]
    /\ treeResp = NoTree
    /\ PageAtRest("login", NULL)

\* the delete endpoint on a volume other processes write to
VolumeSpec == InitVolume /\ [][NextVolume]_vars

\* C27: the delete operation never removes a directory, under every
\* interleaving, also when the target is replaced by a (possibly empty)
\* directory between the directory check and the remove: a directory of the
\* store is still there after every step.
C27_Original ==
    [][\A loc \in DOMAIN fs : fs[loc] = "dir" => Exists(fs', loc)]_vars

-----------------------------------------------------------------------------
(* Frame effect of a batch *)

\* the location candidate i of the batch resolves to
TargetOf(b, i) == Join(AppBase, b.files[i].path)

\* the batch has just recorded the outcome of request r
Recorded(r, outcome) ==
    /\ r.origin = "bulk"
    /\ r \notin reqs'
    /\ bulk'.outcomes = Append(bulk.outcomes, outcome)

\* C13 (as stated): when a candidate of a batch fails, its target is left
\* unchanged: no request of the batch that removed a file is recorded as a
\* failure of its candidate.
C13_Original ==
    [][\A r \in reqs :
          (Recorded(r, "fail") \/ Recorded(r, "thrown")) => r.status # StatusOK]_vars

\* every change of the store removes exactly one file, the target of a
\* request that is answered with success in the same step
OneFileRemoved ==
    fs' # fs =>
        \E r \in reqs :
            /\ r.pc = "remove"
            /\ Exists(fs, FullPath(r))
            /\ fs[FullPath(r)] = "file"
            /\ DOMAIN fs' = (DOMAIN fs) \ {FullPath(r)}
            /\ \A l \in DOMAIN fs' : fs'[l] = fs[l]
            /\ \E r2 \in reqs' :
                  /\ r2.origin = r.origin
                  /\ r2.pc = "done"
                  /\ r2.status = StatusOK
            /\ r.origin = "bulk" =>
                  /\ r.k = Len(bulk.outcomes) + 1
                  /\ FullPath(r) = TargetOf(bulk, r.k)

\* a candidate the service answered with a failure was not removed by its
\* request, and a candidate recorded as a success is gone
RecordedFaithfully ==
    \A r \in reqs :
        /\ Recorded(r, "fail") => (r.pc = "done" /\ r.status # StatusOK)
        /\ Recorded(r, "ok") => (r.status = StatusOK /\ ~Exists(fs', FullPath(r)))

\* the candidates recorded as successes stay deleted
SuccessesStayDeleted ==
    \A i \in 1..Len(bulk.outcomes) :
        bulk.outcomes[i] = "ok" => ~Exists(fs, TargetOf(bulk, i))

\* C13 (amended): a batch has no rollback and no collateral effect: the
\* candidates recorded as successes stay deleted while later candidates
\* fail, a candidate the service answered with a failure is left unchanged
\* by its request, and every change of the store is the removal of exactly
\* one file, the target of the request answered with success.  A candidate
\* recorded as failed because its fetch rejected may have been deleted.
C13_FrameEffect ==
    /\ []SuccessesStayDeleted
    /\ [][OneFileRemoved /\ RecordedFaithfully]_vars

\* a report after a success followed by a refusal: the first target is
\* gone, the refused one is still in the store
C13_Witness ==
    /\ AtReport
    /\ \E i, j \in 1..Len(bulk.outcomes) :
          /\ i < j
          /\ bulk.outcomes[i] = "ok"
          /\ bulk.outcomes[j] = "fail"
          /\ ~Exists(fs, TargetOf(bulk, i))
          /\ Exists(fs, TargetOf(bulk, j))

-----------------------------------------------------------------------------
(* Bounds of the enumeration *)

\* most entries that fail to be read during one walk
MaxDenied == 1

-----------------------------------------------------------------------------
(* Go library used by buildFileTree *)

\* the byte of a character: Go compares strings byte by byte
Byte(c) ==
    CASE c = " " -> 32
      [] c = "." -> 46
      [] c = "/" -> 47
      [] c = "a" -> 97
      [] c = "b" -> 98

\* a < b on strings
RECURSIVE StrLess(_, _)
StrLess(a, b) ==
    IF b = <<>> THEN FALSE
    ELSE IF a = <<>> THEN TRUE
    ELSE IF a[1] = b[1] THEN StrLess(Tail(a), Tail(b))
    ELSE Byte(a[1]) < Byte(b[1])

\* filepath.Clean of a relative path given by its raw segments: empty and
\* "." segments are dropped, ".." removes the segment before it and is kept
\* when there is none
RECURSIVE CleanRelFrom(_, _, _)
CleanRelFrom(segs, i, out) ==
    IF i > Len(segs) THEN out
    ELSE IF segs[i] = <<>> \/ segs[i] = DotSeg THEN CleanRelFrom(segs, i + 1, out)
    ELSE IF segs[i] = DotDotSeg /\ out # <<>> /\ out[Len(out)] # DotDotSeg
         THEN CleanRelFrom(segs, i + 1, SubSeq(out, 1, Len(out) - 1))
    ELSE CleanRelFrom(segs, i + 1, Append(out, segs[i]))

\* a join that roots the path of a child of the root at "/"
JoinRooted(a, b) == IF a = <<>> THEN <<"/">> \o b ELSE a \o <<"/">> \o b

\* filepath.Join(a, b) of two relative paths
JoinRel(a, b) ==
    IF a = <<>> /\ b = <<>> THEN <<>>
    ELSE LET raw  == IF a = <<>> THEN b
                     ELSE IF b = <<>> THEN a
                     ELSE a \o <<"/">> \o b
             segs == CleanRelFrom(Split(raw), 1, <<>>)
         IN  IF segs = <<>> THEN DotSeg ELSE PathText(segs)

\* info.Name() and entry.Name(): the last segment of the location
BaseName(loc) == loc[Len(loc)]

\* the names of the entries of a directory
EntryNames(store, loc) ==
    { BaseName(l) : l \in { m \in DOMAIN store :
                              Len(m) = Len(loc) + 1 /\ IsProperPrefix(loc, m) } }

RECURSIVE SortedNames(_)
SortedNames(names) ==
    IF names = {} THEN <<>>
    ELSE LET first == CHOOSE x \in names : \A y \in names : x = y \/ StrLess(x, y)
         IN  <<first>> \o SortedNames(names \ {first})

\* os.ReadDir: the entries of the directory, sorted by filename
ReadDir(store, loc) == SortedNames(EntryNames(store, loc))

\* a comparison that ignores the kind of the nodes
LessByNameOnly(ci, cj) == StrLess(ci.Name, cj.Name)

\* the less function handed to sort.Slice (lines 140-145)
Less(ci, cj) ==
    IF ci.IsDir # cj.IsDir THEN ci.IsDir ELSE StrLess(ci.Name, cj.Name)

RECURSIVE Insert(_, _)
Insert(x, sorted) ==
    IF sorted = <<>> THEN <<x>>
    ELSE IF Less(x, Head(sorted)) THEN <<x>> \o sorted
    ELSE <<Head(sorted)>> \o Insert(x, Tail(sorted))

\* sort.Slice(node.Children, less): sibling names differ, so less is a
\* strict total order and the sorted slice is unique
RECURSIVE SortSlice(_)
SortSlice(nodes) ==
    IF nodes = <<>> THEN <<>> ELSE Insert(Head(nodes), SortSlice(Tail(nodes)))

-----------------------------------------------------------------------------
(* buildFileTree and getFileTreeHandler *)

\* audioDir: the directory getFileTreeHandler walks.  The handler names the
\* audio volume /opt/stream-audio-data/audio; the delete handler reaches the
\* same volume as /app/audio.
audioDir == <<app, audio>>

RootText == "/opt/stream-audio-data/audio"

ErrAudioDirNotFound == "Audio directory not found"
ErrBuildFileTree == "Failed to build file tree"

\* (nil, err)
Failed == [ok |-> FALSE]

\* (node, nil)
Built(node) == [ok |-> TRUE, node |-> node]

\* os.Stat or os.ReadDir of the entry returns an error: the entry is gone,
\* or it is one of the entries that cannot be read during this walk
Unreadable(store, denied, loc) == ~Exists(store, loc) \/ loc \in denied

RECURSIVE BuildFileTree(_, _, _, _, _)
RECURSIVE BuildChildren(_, _, _, _, _, _)
RECURSIVE BuildChildrenBreak(_, _, _, _, _, _)

\* a loop that stops at the first child that fails
BuildChildrenBreak(store, sz, denied, basePath, relativePath, entries) ==
    IF entries = <<>> THEN <<>>
    ELSE LET child == BuildFileTree(store, sz, denied, basePath,
                                    JoinRel(relativePath, Head(entries)))
         IN  IF ~child.ok THEN <<>>
             ELSE <<child.node>> \o BuildChildrenBreak(store, sz, denied, basePath,
                                                       relativePath, Tail(entries))

\* lines 129-137: the loop over the entries; a child that fails is logged
\* and skipped
BuildChildren(store, sz, denied, basePath, relativePath, entries) ==
    IF entries = <<>> THEN <<>>
    ELSE LET child == BuildFileTree(store, sz, denied, basePath,
                                    JoinRel(relativePath, Head(entries)))
             rest  == BuildChildren(store, sz, denied, basePath, relativePath,
                                    Tail(entries))
         IN  IF ~child.ok THEN rest ELSE <<child.node>> \o rest

\* lines 102-148.  A FileTreeNode has all five fields; Size is 0 and
\* Children is empty where the code does not assign them.
BuildFileTree(store, sz, denied, basePath, relativePath) ==
    LET fullPath == Join(basePath, relativePath) IN
    IF Unreadable(store, denied, fullPath) THEN Failed
    ELSE IF store[fullPath] # "dir"
    THEN Built([Name |-> BaseName(fullPath), Path |-> relativePath, IsDir |-> FALSE,
                Size |-> sz[fullPath], Children |-> <<>>])
    ELSE Built([Name |-> BaseName(fullPath), Path |-> relativePath, IsDir |-> TRUE,
                Size |-> 0,
                Children |-> SortSlice(BuildChildren(store, sz, denied, basePath,
                                                     relativePath,
                                                     ReadDir(store, fullPath)))])

\* an absent key of a JSON object
NoKeys == [k \in {} |-> 0]

\* encoding/json of a FileTreeNode (lines 58-64): name, path and isDir are
\* always written; size and children carry omitempty, so a zero size and an
\* empty slice are left out
RECURSIVE MarshalNode(_)
RECURSIVE MarshalNodes(_)
MarshalNodes(nodes) ==
    IF nodes = <<>> THEN <<>>
    ELSE <<MarshalNode(Head(nodes))>> \o MarshalNodes(Tail(nodes))

MarshalNode(node) ==
    [name |-> node.Name, path |-> node.Path, isDir |-> node.IsDir]
    @@ (IF node.Size # 0 THEN [size |-> node.Size] ELSE NoKeys)
    @@ (IF Len(node.Children) # 0
        THEN [children |-> MarshalNodes(node.Children)] ELSE NoKeys)

\* lines 73-94: the status and the JSON body of the answer
GetFileTreeHandler(store, sz, denied) ==
    IF ~Exists(store, audioDir)
    THEN [status |-> StatusNotFound, body |-> [error |-> ErrAudioDirNotFound]]
    ELSE LET t == BuildFileTree(store, sz, denied, audioDir, <<>>) IN
         IF ~t.ok
         THEN [status |-> StatusInternalServerError, body |-> [error |-> ErrBuildFileTree]]
         ELSE [status |-> StatusOK,
               body |-> [tree |-> MarshalNode(t.node), root |-> RootText]]

\* the entries a walk can fail to read
DeniedChoices ==
    { d \in SUBSET { l \in DOMAIN fs : l = audioDir \/ StrictDescendant(l, audioDir) } :
        Cardinality(d) <= MaxDenied }

\* the response already held answers a walk of the store as it is now
HeldIsCurrent == treeResp.status # 0 /\ treeResp.store = fs

\* a walk that removes from the store the entries it fails to read
GetFileTreePruning ==
    /\ reqs = {}
    /\ \E denied \in DeniedChoices :
          /\ treeResp' = GetFileTreeHandler(fs, sizes, denied)
                         @@ [store |-> fs, denied |-> denied, again |-> HeldIsCurrent]
          /\ fs' = [l \in { m \in DOMAIN fs : m \notin denied } |-> fs[l]]
    /\ UNCHANGED <<reqs, uiVars, sizes, pageVars>>

\* curl .../admin/files/tree by an administrator who has no other request
\* pending: the handler runs and the response is received; store and denied
\* remember what the walk met, and again whether a response for the same
\* store was already held
GetFileTree ==
    /\ reqs = {}
    /\ \E denied \in DeniedChoices :
          treeResp' = GetFileTreeHandler(fs, sizes, denied)
                      @@ [store |-> fs, denied |-> denied, again |-> HeldIsCurrent]
    /\ UNCHANGED <<fs, reqs, uiVars, sizes, pageVars>>

\* the nodes of a JSON tree
RECURSIVE NodesOf(_)
RECURSIVE NodesOfAll(_)
NodesOfAll(nodes) ==
    IF nodes = <<>> THEN {} ELSE NodesOf(Head(nodes)) \cup NodesOfAll(Tail(nodes))

NodesOf(node) ==
    {node} \cup (IF "children" \in DOMAIN node THEN NodesOfAll(node.children) ELSE {})

\* the nodes of the last response
TreeNodes ==
    IF treeResp.status = StatusOK THEN NodesOf(treeResp.body.tree) ELSE {}

\* the store has not changed since the tree was enumerated
TreeIsFresh == treeResp.status = StatusOK /\ treeResp.store = fs

\* renderNode (app.ts:1017-1028, 1060-1068): the checkbox and the delete
\* button of a file node carry node.path unchanged, and deleteFile sends it
\* with the administrator's token
DeleteNodeFile(node) ==
    /\ TreeIsFresh
    /\ ~node.isDir
    /\ \A r \in reqs : r.origin # "admin"
    /\ reqs' = reqs \cup {NewRequest("admin", 0, DeleteFetch(Bearer(AdminToken), node.path))}
    /\ UNCHANGED <<fs, uiVars, treeVars, pageVars>>

-----------------------------------------------------------------------------
(* The stores the enumeration is applied to *)

fB == <<"b">>

\* zero, and the size of the documented response
FileSizes == {0, ExampleSize}

\* the location of an entry of the audio directory
InAudio(rel) == audioDir \o rel

TreeBase ==
    ( <<>>             :> "dir" ) @@
    ( <<app>>          :> "dir" ) @@
    ( <<app, covers>>  :> "dir" ) @@
    ( <<app, uploads>> :> "dir" )

TreeAAChoices ==
    { EmptyStore,
      ( InAudio(<<fA, fA>>) :> "file" ),
      ( InAudio(<<fA, fA>>) :> "dir" ),
      ( InAudio(<<fA, fA>>) :> "dir" ) @@ ( InAudio(<<fA, fA, fA>>) :> "file" ) }

TreeABChoices ==
    { EmptyStore,
      ( InAudio(<<fA, fB>>) :> "file" ),
      ( InAudio(<<fA, fB>>) :> "dir" ) }

TreeAChoices ==
    { EmptyStore, ( InAudio(<<fA>>) :> "file" ) }
    \cup { ( InAudio(<<fA>>) :> "dir" ) @@ x @@ y : x \in TreeAAChoices, y \in TreeABChoices }

TreeBChoices ==
    { EmptyStore,
      ( InAudio(<<fB>>) :> "file" ),
      ( InAudio(<<fB>>) :> "dir" ),
      ( InAudio(<<fB>>) :> "dir" ) @@ ( InAudio(<<fB, fA>>) :> "file" ) }

TreeDotsChoices == { EmptyStore, ( InAudio(<<fDots>>) :> "file" ) }

\* the audio directory missing, or present with up to three levels below it
TreeStores ==
    { TreeBase }
    \cup { TreeBase @@ ( audioDir :> "dir" ) @@ x @@ y @@ z :
             x \in TreeAChoices, y \in TreeBChoices, z \in TreeDotsChoices }

InitTree ==
    /\ fs \in TreeStores
    /\ sizes \in [Files(fs) -> FileSizes]
    /\ reqs = {}
    /\ token = NULL
    /\ localStorage = [key \in StorageKeys |-> NULL]
    /\ rendered = <<>>
    /\ bulk = NoBulk
    /\ single = NoSingle
    /\ treeLoad = "idle"
    /\ treeResp = NoTree
    /\ PageAtRest("login", NULL)

NextTree ==
    \/ GetFileTree
    \/ \E node \in TreeNodes : DeleteNodeFile(node)
    \/ AdminRequest(audio \o <<"/">> \o fA)
    \/ \E r \in reqs : DeleteFileHandlerValidate(r)
    \/ \E r \in reqs : DeleteFileHandlerStat(r)
    \/ \E r \in reqs : DeleteFileHandlerRemove(r)
    \/ \E r \in reqs : AdminReceive(r)

\* the tree endpoint and the delete endpoint under sequential requests of an
\* administrator
TreeSpec == InitTree /\ [][NextTree]_vars

-----------------------------------------------------------------------------
(* Properties of the enumeration *)

\* the paths of the file nodes of the last response
FileNodePaths == { n.path : n \in { m \in TreeNodes : ~m.isDir } }

\* C14 (as stated): enumeration builds paths the delete gate accepts: the
\* path of a file node, submitted to the delete endpoint with no mutation
\* of the store in between, is authorized and deletes exactly the file the
\* node describes.
C14_Original ==
    \A r \in reqs :
        (/\ r.pc = "done"
         /\ treeResp.status = StatusOK
         /\ r.path \in FileNodePaths
         /\ ~r.fault)
        => /\ r.status = StatusOK
           /\ fs = RemoveEntry(treeResp.store, Join(audioDir, r.path))

\* the children a JSON node lists
ChildrenOf(node) == IF "children" \in DOMAIN node THEN node.children ELSE <<>>

\* directories before files, and names ascending within each group
Ordered(ch) ==
    \A i, j \in 1..Len(ch) :
        i < j => \/ ch[i].isDir /\ ~ch[j].isDir
                 \/ ch[i].isDir = ch[j].isDir /\ StrLess(ch[i].name, ch[j].name)

\* C15: in an enumerated tree the children of every directory node, at
\* every depth, list directories before files, and within each group the
\* names ascend in byte order.
C15_ChildrenOrdered == \A n \in TreeNodes : Ordered(ChildrenOf(n))

\* a tree whose root lists a directory before a file of a smaller name, and
\* in which a directory below the root lists a directory and a file
C15_Witness ==
    /\ treeResp.status = StatusOK
    /\ \E i, j \in 1..Len(ChildrenOf(treeResp.body.tree)) :
          LET ch == ChildrenOf(treeResp.body.tree) IN
          /\ i < j
          /\ ch[i].isDir /\ ~ch[j].isDir
          /\ StrLess(ch[j].name, ch[i].name)
    /\ \E n \in TreeNodes :
          /\ n.path # <<>>
          /\ Len(ChildrenOf(n)) = 2
          /\ ChildrenOf(n)[1].isDir /\ ~ChildrenOf(n)[2].isDir

\* loc is, or lies below, an entry the walk failed to read
Omitted(denied, loc) == \E d \in denied : d = loc \/ IsProperPrefix(d, loc)

\* the entries of the audio directory outside every failed subtree
Readable(store, denied) ==
    { l \in DOMAIN store :
        (l = audioDir \/ StrictDescendant(l, audioDir)) /\ ~Omitted(denied, l) }

\* the locations the nodes of the last response stand for
NodeLocs == { Join(audioDir, n.path) : n \in TreeNodes }

\* C16: when reading entries below the root fails during the walk, the
\* enumeration still returns a tree, and the tree holds exactly the entries
\* outside the failed subtrees: each failed child is omitted with its
\* subtree, every readable sibling and every other entry is present.
C16_ChildFailureIsolated ==
    (/\ treeResp.status # 0
     /\ Exists(treeResp.store, audioDir)
     /\ audioDir \notin treeResp.denied)
    => /\ treeResp.status = StatusOK
       /\ NodeLocs = Readable(treeResp.store, treeResp.denied)

\* the directory a with an entry below it failed; its sibling b is listed
C16_Witness ==
    /\ treeResp.status = StatusOK
    /\ treeResp.denied = {InAudio(<<fA>>)}
    /\ Exists(treeResp.store, InAudio(<<fA, fA>>))
    /\ InAudio(<<fA>>) \notin NodeLocs
    /\ InAudio(<<fB>>) \in NodeLocs

\* C17 (as stated): when the root does not exist or cannot be read, the
\* enumerate call still succeeds: the root is left out of the forest and
\* listed as unavailable.
C17_Original ==
    (/\ treeResp.status # 0
     /\ (~Exists(treeResp.store, audioDir) \/ audioDir \in treeResp.denied))
    => /\ treeResp.status = StatusOK
       /\ "unavailable" \in DOMAIN treeResp.body
       /\ audio \in treeResp.body.unavailable

\* C18 (as stated): every directory node of an enumeration response carries
\* the sequence of its children, present and empty for an empty directory.
C18_Original == \A n \in TreeNodes : n.isDir => "children" \in DOMAIN n

\* C19 (as stated): a node of an enumeration response carries a size exactly
\* when it is a file, a file of 0 bytes included.
C19_Original == \A n \in TreeNodes : ("size" \in DOMAIN n) <=> ~n.isDir

\* the path does not start at the root of the file system
IsRelative(path) == path = <<>> \/ path[1] # "/"

\* C20: the path of every node of an enumerated tree is relative, has no
\* '..' segment, and joined to the root gives the location of the entry the
\* node stands for (same name, same kind), which is the root or lies below
\* it; no two nodes stand for the same entry.
C20_PathsInsideRoot ==
    /\ \A n \in TreeNodes :
          LET loc == Join(audioDir, n.path) IN
          /\ IsRelative(n.path)
          /\ ~HasDotDotSegment(n.path)
          /\ loc = audioDir \/ StrictDescendant(loc, audioDir)
          /\ Exists(treeResp.store, loc)
          /\ (treeResp.store[loc] = "dir") <=> n.isDir
          /\ BaseName(loc) = n.name
          /\ PathText(SubSeq(loc, Len(audioDir) + 1, Len(loc))) = n.path
    /\ Cardinality(TreeNodes) = Cardinality(NodeLocs)

\* a tree with a file three levels below the root and a file whose name
\* holds two dots
C20_Witness ==
    /\ treeResp.status = StatusOK
    /\ \E n \in TreeNodes : n.path = PathText(<<fA, fA, fA>>) /\ ~n.isDir
    /\ \E n \in TreeNodes : n.name = fDots

-----------------------------------------------------------------------------
(* Properties of the dashboard *)

\* C22: the step that ends a bulk delete calls loadFileTree (the tree is
\* cleared and a load is pending) if and only if at least one candidate of
\* the batch was recorded as a success, it is taken only when every
\* candidate has an outcome, and no other step of the batch touches the
\* tree or the pending load.
C22_ReloadAfterSuccess ==
    [][bulk' # bulk =>
          IF bulk.pc = "alert"
          THEN /\ Len(bulk.outcomes) = Len(bulk.files)
               /\ IF Successes(bulk) > 0
                  THEN treeLoad' = "loading" /\ rendered' = <<>>
                  ELSE treeLoad' = treeLoad /\ rendered' = rendered
          ELSE treeLoad' = treeLoad /\ rendered' = rendered]_vars

\* A reload that only a batch can have caused: the session token is stale,
\* so no single-file delete succeeds and only the end of a batch with a
\* success calls loadFileTree; the batch has ended and the tree is loading.
C22_Witness ==
    /\ token = StaleToken
    /\ bulk = NoBulk
    /\ single = NoSingle
    /\ treeLoad = "loading"
    /\ rendered = <<>>

\* the requests the dashboard has in flight to the delete endpoint
UIDeletes == {r \in reqs : r.origin \in {"bulk", "single"}}

\* the delete requests the dashboard sends in a step
IssuedDeletes == {r \in UIDeletes' \ UIDeletes : r.pc = "sent"}

\* C24: in every authenticated state, every delete request the UI issues,
\* the single delete and every item of a bulk delete, carries as bearer
\* credential the session token that setToken wrote.
C24_Original ==
    IsAuthenticated =>
        \A r \in UIDeletes : r.cred = Bearer(localStorage["admin_token"])

\* C25: at most one delete request of the UI is in flight at any time; while
\* a batch runs, neither a second batch nor a single delete issues one.
C25_Original ==
    /\ [](Cardinality(UIDeletes) <= 1)
    /\ [][bulk.pc \in {"loop", "await"} =>
             \A r \in IssuedDeletes : r.origin = "bulk" /\ r.k = bulk.next]_vars

\* a file node of the tree on screen has this path
RenderedFile(path) ==
    \E i \in 1..Len(rendered) : rendered[i].path = path /\ ~rendered[i].isDir

\* a checked file node of the tree on screen has this path
SelectedFile(path) ==
    \E i \in 1..Len(rendered) :
        rendered[i].path = path /\ ~rendered[i].isDir /\ rendered[i].checked

\* C29: every path the UI submits for deletion is the path of a
\* non-directory node of a rendered tree: a single delete sends the path of
\* a file node on screen; a batch is made of the checked file nodes on screen
\* when it starts, is never empty, does not change while it runs, and each of
\* its requests carries the path of one of its candidates.
C29_SubmitsFileNodesOnly ==
    [][/\ \A r \in IssuedDeletes :
            IF r.origin = "single"
            THEN RenderedFile(r.path)
            ELSE /\ bulk.pc = "loop"
                 /\ r.k \in 1..Len(bulk.files)
                 /\ r.path = bulk.files[r.k].path
       /\ (bulk.pc = "idle" /\ bulk'.pc # "idle") =>
            /\ bulk'.files # <<>>
            /\ \A k \in 1..Len(bulk'.files) : SelectedFile(bulk'.files[k].path)
       /\ (bulk.pc # "idle" /\ bulk'.pc # "idle") => bulk'.files = bulk.files]_vars

\* a tree reloaded from a store where audio/a is a directory is on screen,
\* every box of it is checked, and the second request of the batch made of
\* them is in flight
C29_Witness ==
    /\ Exists(fs, <<app, audio, fA>>)
    /\ fs[<<app, audio, fA>>] = "dir"
    /\ RenderedFile(PathText(<<audio, fA, fA>>))
    /\ \A i \in 1..Len(rendered) : rendered[i].checked
    /\ Len(bulk.files) = Len(rendered)
    /\ \E r \in reqs : r.origin = "bulk" /\ r.k = 2

-----------------------------------------------------------------------------
(* Login and session *)

\* the accounts a login form is submitted for: an administrator, an account
\* without admin privileges, and credentials the auth service rejects
Accounts == {"admin", "user", "wrong"}

\* the admin middleware of the service: no valid claims 401, a valid token of
\* a non-admin 403, otherwise the request goes on
AdminMiddleware(cred) ==
    IF cred = Bearer(AdminToken) THEN StatusOK
    ELSE IF cred = Bearer(UserToken) THEN StatusForbidden
    ELSE StatusUnauthorized

\* POST /login: accepted credentials are answered with the account's token
LoginHandler(account) ==
    IF account = "admin" THEN [status |-> StatusOK, token |-> AdminToken]
    ELSE IF account = "user" THEN [status |-> StatusOK, token |-> UserToken]
    ELSE [status |-> StatusUnauthorized, token |-> NULL]

\* ApiService.request up to its fetch: the Authorization header is set only
\* when getToken returns a token
ApiRequest(endpoint, caller, account, tok) ==
    [endpoint |-> endpoint, caller |-> caller, account |-> account,
     cred |-> IF tok = NULL THEN <<>> ELSE Bearer(tok),
     pc |-> "sent", status |-> 0, token |-> NULL]

\* AppState.logout
Logout ==
    /\ token' = NULL
    /\ username' = NULL
    /\ localStorage' = [localStorage EXCEPT !["admin_token"] = NULL,
                                             !["admin_username"] = NULL]

\* the submit handler of the login form, up to `await api.login(...)`
SubmitLogin(account) ==
    /\ screen = "login"
    /\ login.pc = "idle"
    /\ login' = [pc |-> "awaitLogin", account |-> account, outcome |-> "pending"]
    /\ apiReqs' = apiReqs \cup {ApiRequest("/login", "login", account, GetToken)}
    /\ token' = GetToken
    /\ UNCHANGED <<fs, reqs, localStorage, rendered, bulk, single, treeLoad,
                   treeVars, screen, username, loads, shown>>

\* the service answers a request of ApiService
AuthService(q) ==
    /\ q.pc = "sent"
    /\ apiReqs' = (apiReqs \ {q}) \cup
          {IF q.endpoint = "/login"
           THEN [q EXCEPT !.pc = "done",
                          !.status = LoginHandler(q.account).status,
                          !.token = LoginHandler(q.account).token]
           ELSE [q EXCEPT !.pc = "done", !.status = AdminMiddleware(q.cred)]}
    /\ UNCHANGED <<fs, reqs, uiVars, treeVars, screen, username, login, loads, shown>>

\* the catch block of the caller of a failed request: the login handler shows
\* the error and ends; loadStats reports the error
CallerFails(q) ==
    login' = IF q.caller = "login"
             THEN [login EXCEPT !.pc = "idle", !.outcome = "rejected"]
             ELSE IF q.caller = "verify"
             THEN [login EXCEPT !.pc = "idle", !.outcome = "unverified"]
             ELSE login

\* ApiService.request from the response of its fetch on, with the
\* continuation of its caller
ApiReceive(q) ==
    /\ q.pc = "done"
    /\ IF q.status = StatusUnauthorized
       THEN /\ Logout
            /\ screen' = "login"
            /\ CallerFails(q)
            /\ apiReqs' = apiReqs \ {q}
       ELSE IF q.status = StatusForbidden
       THEN /\ CallerFails(q)
            /\ apiReqs' = apiReqs \ {q}
            /\ UNCHANGED <<token, localStorage, username, screen>>
       ELSE IF q.caller = "login"
       THEN \* setToken, setUsername, then `await api.getStats()`
            /\ token' = q.token
            /\ username' = q.account
            /\ localStorage' = [localStorage EXCEPT !["admin_token"] = q.token,
                                                     !["admin_username"] = q.account]
            /\ login' = [login EXCEPT !.pc = "awaitStats"]
            /\ apiReqs' = (apiReqs \ {q}) \cup
                             {ApiRequest("/admin/stats", "verify", "", q.token)}
            /\ UNCHANGED screen
       ELSE IF q.caller = "verify"
       THEN \* showDashboardScreen, switchTab('overview') -> loadStats
            /\ screen' = "dashboard"
            /\ username' = IF username # NULL THEN username
                           ELSE localStorage["admin_username"]
            /\ token' = GetToken
            /\ login' = [login EXCEPT !.pc = "idle", !.outcome = "verified"]
            /\ apiReqs' = (apiReqs \ {q}) \cup
                             {ApiRequest("/admin/stats", "loadStats", "", GetToken)}
            /\ UNCHANGED localStorage
       ELSE /\ apiReqs' = apiReqs \ {q}
            /\ UNCHANGED <<token, localStorage, username, screen, login>>
    /\ UNCHANGED <<fs, reqs, rendered, bulk, single, treeLoad, treeVars, loads, shown>>

\* fetch rejects (the network fails): request rethrows to its caller
ApiFetchRejects(q) ==
    /\ apiReqs' = apiReqs \ {q}
    /\ CallerFails(q)
    /\ UNCHANGED <<fs, reqs, uiVars, treeVars, screen, username, loads, shown>>

\* the click handler of the logout button
LogoutClick ==
    /\ screen = "dashboard"
    /\ Logout
    /\ screen' = "login"
    /\ UNCHANGED <<fs, reqs, rendered, bulk, single, treeLoad, treeVars,
                   apiReqs, login, loads, shown>>

\* the refresh button of the overview tab: loadStats
RefreshStats ==
    /\ screen = "dashboard"
    /\ apiReqs' = apiReqs \cup {ApiRequest("/admin/stats", "loadStats", "", GetToken)}
    /\ token' = GetToken
    /\ UNCHANGED <<fs, reqs, localStorage, rendered, bulk, single, treeLoad,
                   treeVars, screen, username, login, loads, shown>>

\* the page is loaded anew: the state in memory and the pending requests are
\* gone, initApp decides the screen from the stored token
InitApp ==
    /\ token' = localStorage["admin_token"]
    /\ login' = [login EXCEPT !.pc = "idle"]
    /\ IF localStorage["admin_token"] # NULL
       THEN /\ screen' = "dashboard"
            /\ username' = localStorage["admin_username"]
            /\ apiReqs' = {ApiRequest("/admin/stats", "loadStats", "",
                                      localStorage["admin_token"])}
       ELSE /\ screen' = "login"
            /\ username' = NULL
            /\ apiReqs' = {}
    /\ UNCHANGED <<fs, reqs, localStorage, rendered, bulk, single, treeLoad,
                   treeVars, loads, shown>>

\* a page just loaded, with nothing stored or with the token of an expired
\* session
InitSession ==
    /\ fs = BaseStore
    /\ reqs = {}
    /\ \E stored \in {NULL, StaleToken} :
         /\ localStorage = [key \in StorageKeys |->
                              IF key = "admin_token" THEN stored
                              ELSE IF key = "admin_username" /\ stored # NULL THEN "admin"
                              ELSE NULL]
         /\ token = stored
         /\ screen = IF stored = NULL THEN "login" ELSE "dashboard"
         /\ username = IF stored = NULL THEN NULL ELSE "admin"
         /\ apiReqs = IF stored = NULL THEN {}
                      ELSE {ApiRequest("/admin/stats", "loadStats", "", stored)}
    /\ login = NoLogin
    /\ rendered = <<>>
    /\ bulk = NoBulk
    /\ single = NoSingle
    /\ treeLoad = "idle"
    /\ sizes = [l \in Files(fs) |-> ExampleSize]
    /\ treeResp = NoTree
    /\ loads = <<>>
    /\ shown = 0

NextSession ==
    \/ \E account \in Accounts : SubmitLogin(account)
    \/ \E q \in apiReqs : AuthService(q)
    \/ \E q \in apiReqs : ApiReceive(q)
    \/ \E q \in apiReqs : ApiFetchRejects(q)
    \/ LogoutClick
    \/ RefreshStats
    \/ InitApp

SessionSpec == InitSession /\ [][NextSession]_vars

\* C23: a token is persisted only once /admin/stats has verified admin
\* access: after a login whose credentials were accepted but whose
\* verification failed, no token is stored, isAuthenticated() is false and
\* the page shows the login screen when loaded again.
C23_Original ==
    login.outcome = "unverified" =>
        /\ localStorage["admin_token"] = NULL
        /\ ~IsAuthenticated
        /\ screen = "login"

\* the session on the page was established by a successful login made after
\* the request q was sent: q carries another token than the session's
EstablishedLater(q) ==
    /\ login.outcome = "verified"
    /\ IsAuthenticated
    /\ q.cred # Bearer(GetToken)

\* C30: whenever a request made through ApiService.request receives 401 the
\* session is cleared (token and username null in memory, both keys removed
\* from localStorage), the login screen is shown and the call fails; and a
\* 401 that answers a request sent with an earlier token never clears a
\* session established by a later successful login.
C30_Original ==
    [][\A q \in apiReqs :
          (ApiReceive(q) /\ q.status = StatusUnauthorized) =>
              /\ IF EstablishedLater(q)
                 THEN /\ token' = token
                      /\ localStorage' = localStorage
                      /\ screen' = screen
                 ELSE /\ token' = NULL
                      /\ username' = NULL
                      /\ localStorage'["admin_token"] = NULL
                      /\ localStorage'["admin_username"] = NULL
                      /\ screen' = "login"
              /\ q \notin apiReqs'
              /\ q.caller \in {"login", "verify"} => login'.pc = "idle"]_vars

-----------------------------------------------------------------------------
(* Loading the file tree *)

\* the loadFileTree invocations of a page that are followed
MaxLoads == 3

\* loadFileTree up to its fetch (the initial load, a click on the refresh
\* button, the reload after a deletion): the container shows the loading
\* text and the request is sent
LoadFileTree ==
    /\ Len(loads) < MaxLoads
    /\ loads' = Append(loads, [pc |-> "sent", boxes |-> <<>>])
    /\ LoadFileTreeCalled
    /\ shown' = 0
    /\ token' = GetToken
    /\ UNCHANGED <<fs, reqs, localStorage, bulk, single, treeVars,
                   screen, username, apiReqs, login>>

\* the service answers the i-th invocation with the tree of the store
TreeService(i) ==
    /\ loads[i].pc = "sent"
    /\ loads' = [loads EXCEPT ![i] = [pc |-> "done", boxes |-> FileCheckboxes(fs)]]
    /\ UNCHANGED <<fs, reqs, uiVars, treeVars, screen, username, apiReqs, login, shown>>

\* loadFileTree from the response of its fetch on: the tree of the response
\* replaces the content of the container
LoadFileTreeRender(i) ==
    /\ loads[i].pc = "done"
    /\ loads' = [loads EXCEPT ![i].pc = "rendered"]
    /\ rendered' = loads[i].boxes
    /\ treeLoad' = "idle"
    /\ shown' = i
    /\ UNCHANGED <<fs, reqs, token, localStorage, bulk, single, treeVars,
                   screen, username, apiReqs, login>>

\* the maintenance tab of a logged-in administrator before its first load
InitLoad ==
    /\ fs = SnapshotStore
    /\ reqs = {}
    /\ token = AdminToken
    /\ localStorage = [key \in StorageKeys |->
                         IF key = "admin_token" THEN AdminToken
                         ELSE IF key = "admin_username" THEN "admin"
                         ELSE NULL]
    /\ rendered = <<>>
    /\ bulk = NoBulk
    /\ single = NoSingle
    /\ treeLoad = "idle"
    /\ sizes = [l \in Files(fs) |-> ExampleSize]
    /\ treeResp = NoTree
    /\ PageAtRest("dashboard", "admin")

NextLoad ==
    \/ LoadFileTree
    \/ \E i \in 1..Len(loads) : TreeService(i)
    \/ \E i \in 1..Len(loads) : LoadFileTreeRender(i)
    \/ \E path \in ContendedPaths : AdminRequest(path)
    \/ \E r \in reqs : DeleteFileHandlerValidate(r)
    \/ \E r \in reqs : DeleteFileHandlerStat(r)
    \/ \E r \in reqs : DeleteFileHandlerRemove(r)
    \/ \E r \in reqs : AdminReceive(r)

\* the file browser under overlapping loads while files are deleted
LoadSpec == InitLoad /\ [][NextLoad]_vars

\* C26: when loads of the file tree overlap, the tree finally rendered is the
\* response to the most recently issued request: once every response has
\* been handled the container shows the response of the last invocation.
C26_Original ==
    (loads # <<>> /\ \A i \in 1..Len(loads) : loads[i].pc = "rendered") =>
        /\ shown = Len(loads)
        /\ rendered = loads[Len(loads)].boxes

====
